---- MODULE Spec2Model ----
(***************************************************************************)
(* obrms: heavy-atom RMSD between chemically identical structures.         *)
(* Model of src/tools/obrms.cpp: processMol, Matcher, MapRMSDFunctor and   *)
(* the read/compare loop of main.                                          *)
(***************************************************************************)
EXTENDS Integers, Sequences, FiniteSets

VARIABLES
    pc,         \* position in main / computeRMSD
    firstOnly,  \* option -f
    minimize,   \* option -m
    testEOF,    \* the test stream has reported its end
    refIdx,     \* reference records read so far
    testIdx,    \* test records read so far
    molref,     \* OBMol molref
    moltest,    \* OBMol moltest
    query,      \* Matcher::query (NoQuery when no Matcher is alive)
    bestRMSD,   \* MapRMSDFunctor::bestRMSD
    remaining,  \* mappings MapGeneric has not handed to the functor yet, in order
    stopped,    \* the functor asked MapGeneric to stop
    rmsd,       \* value returned by computeRMSD (NoValue outside its scope)
    nOut,       \* RMSD lines written
    divByZero,  \* a division by an atom count N = 0 was performed
    nProc,      \* processMol applications (normalizer specification only)
    orig        \* the structure as given, before re-indexing or normalization

vars == <<pc, firstOnly, minimize, testEOF, refIdx, testIdx, molref,
          moltest, query, bestRMSD, remaining, stopped, rmsd, nOut,
          divByZero, nProc, orig>>

(***************************************************************************)
(* Bounds of the model.                                                    *)
(***************************************************************************)
MaxAtoms == 3
MaxCoord == 1
MaxOrder == 2
MaxRef == 2
MaxTest == 3
MaxFileAtoms == 1

Elements == {"H", "C", "O"}

(***************************************************************************)
(* Molecule graphs.  An atom is [elem, pos, arom, ring] with pos a 3-vector *)
(* <<x, y, z>>; a bond is [a, b, order, arom, ring] with a < b the 1-based *)
(* atom indices; flags are the molecule's "perceived" flags.               *)
(***************************************************************************)
Atom(e, x, ar, rg) == [elem |-> e, pos |-> <<x, 0, 0>>, arom |-> ar, ring |-> rg]

Bond(p, q, o, ar, rg) == [a |-> p, b |-> q, order |-> o, arom |-> ar, ring |-> rg]

EmptyMol == [atoms |-> <<>>, bonds |-> {}, flags |-> {}]

NumAtoms(mol) == Len(mol.atoms)

Empty(mol) == NumAtoms(mol) = 0

Pairs(n) == {pq \in (1..n) \X (1..n) : pq[1] < pq[2]}

\* A molecule of n atoms on the x axis: elements es, x coordinates xs,
\* bonds on the index pairs bs; fl = <<aromatic, ring, order>> is uniform
\* over the atoms and bonds.
MkMol(n, es, xs, bs, fl) ==
    [atoms |-> [i \in 1..n |-> Atom(es[i], xs[i], fl[1], fl[2])],
     bonds |-> {Bond(pq[1], pq[2], fl[3], fl[1], fl[2]) : pq \in bs},
     flags |-> {}]

AnyCoords(n) == [1..n -> 0..MaxCoord]

\* Flags as a reader's perception may leave them, and already uniform ones.
Perceived == <<TRUE, FALSE, MaxOrder>>

Uniform == <<FALSE, TRUE, 1>>

AnyFlags == BOOLEAN \X BOOLEAN \X (1..MaxOrder)

\* Records of the streams read by main.
FileMols ==
    UNION { {MkMol(n, es, xs, bs, fl) :
               es \in [1..n -> {"H", "C"}], xs \in AnyCoords(n),
               bs \in SUBSET Pairs(n), fl \in {Perceived, Uniform}} :
            n \in 0..MaxFileAtoms }

(***************************************************************************)
(* processMol                                                              *)
(***************************************************************************)
IsHydrogen(a) == a.elem = "H"

\* Index of atom i once the hydrogens before it are removed.
NewIdx(mol, i) == Cardinality({j \in 1..i : ~IsHydrogen(mol.atoms[j])})

DeleteHydrogens(mol) ==
    [mol EXCEPT
        !.atoms = SelectSeq(mol.atoms, LAMBDA a : ~IsHydrogen(a)),
        !.bonds = { [b EXCEPT !.a = NewIdx(mol, b.a), !.b = NewIdx(mol, b.b)] :
                      b \in {c \in mol.bonds : /\ ~IsHydrogen(mol.atoms[c.a])
                                               /\ ~IsHydrogen(mol.atoms[c.b])} }]

NormalizeAtom(a) == [a EXCEPT !.arom = FALSE, !.ring = TRUE]

\* Fault: SetBondOrder(1) left out.
NormalizeBondKeepOrder(b) == [b EXCEPT !.arom = FALSE, !.ring = TRUE]

NormalizeBond(b) == [b EXCEPT !.arom = FALSE, !.order = 1, !.ring = TRUE]

PerceivedFlags == {"hybridization", "rings", "aromatic"}

processMol(mol) ==
    LET m == DeleteHydrogens(mol) IN
    [atoms |-> [i \in 1..Len(m.atoms) |-> NormalizeAtom(m.atoms[i])],
     bonds |-> {NormalizeBond(b) : b \in m.bonds},
     flags |-> m.flags \cup PerceivedFlags]

IsNormalized(mol) ==
    /\ \A i \in 1..NumAtoms(mol) :
          /\ ~IsHydrogen(mol.atoms[i])
          /\ ~mol.atoms[i].arom
          /\ mol.atoms[i].ring
    /\ \A b \in mol.bonds :
          /\ b.a \in 1..NumAtoms(mol) /\ b.b \in 1..NumAtoms(mol)
          /\ ~b.arom /\ b.ring /\ b.order = 1
    /\ PerceivedFlags \subseteq mol.flags

(***************************************************************************)
(* Floating-point results.  Fin(n, d) stands for sqrt(n / d), d >= 1; Inf  *)
(* is HUGE_VAL.  NoValue marks storage that holds no object.               *)
(***************************************************************************)
Inf == [tag |-> "inf"]

Fin(n, d) == [tag |-> "fin", num |-> n, den |-> d]

NoValue == [tag |-> "none"]

\* a < b on doubles: sqrt is monotone, so compare the radicands.
Less(a, b) ==
    /\ a.tag = "fin"
    /\ \/ b.tag = "inf"
       \/ b.tag = "fin" /\ a.num * b.den < b.num * a.den

SameValue(a, b) ==
    \/ a.tag = "inf" /\ b.tag = "inf"
    \/ a.tag = "fin" /\ b.tag = "fin" /\ a.num * b.den = b.num * a.den

IsZero(a) == a.tag = "fin" /\ a.num = 0

RECURSIVE SumTo(_, _)
SumTo(f, n) == IF n = 0 THEN 0 ELSE f[n] + SumTo(f, n - 1)

Axes == 1..3

(***************************************************************************)
(* Library routines used by the functor.  Coordinate arrays are sequences  *)
(* of 3-vectors of integers in units of 1/scale.                           *)
(***************************************************************************)
\* calc_rms: sqrt of the mean squared distance; 0 for an empty set.
calc_rms(r, f, N, scale) ==
    IF N = 0 THEN Fin(0, 1)
    ELSE Fin(SumTo([i \in 1..N |->
                      SumTo([c \in Axes |-> (r[i][c] - f[i][c]) * (r[i][c] - f[i][c])], 3)],
                   N),
             N * scale * scale)

IdentityMatrix == <<<<1, 0, 0>>, <<0, 1, 0>>, <<0, 0, 1>>>>

HalfTurnZ == <<<<-1, 0, 0>>, <<0, -1, 0>>, <<0, 0, 1>>>>

\* qtrfit: the proper rotation minimizing the summed squared distance of
\* two centred point sets.  For point sets on the x axis the residual is
\* sum|r|^2 + sum|f|^2 - 2 * R[1][1] * sum(r.x * f.x), least for the
\* identity when the correlation is >= 0 and for a half turn otherwise.
qtrfit(r, f, N) ==
    IF SumTo([i \in 1..N |-> r[i][1] * f[i][1]], N) >= 0
    THEN IdentityMatrix ELSE HalfTurnZ

rotate_coords(f, rmatrix, N) ==
    [i \in 1..N |-> [c \in Axes |-> SumTo([k \in Axes |-> rmatrix[c][k] * f[i][k]], 3)]]

(***************************************************************************)
(* Matcher::MapRMSDFunctor                                                 *)
(***************************************************************************)
\* Fault: the running minimum starts at 0.
MapRMSDFunctorCtorZero == Fin(0, 1)

\* Fault: one functor kept for the life of the Matcher, constructed on the
\* first call only.
MapRMSDFunctorCtorStatic == IF bestRMSD.tag = "none" THEN Inf ELSE bestRMSD

\* bestRMSD(HUGE_VAL)
MapRMSDFunctorCtor == Inf

\* refcoord / testcoord: the mapper is zero indexed, OBMol is 1-indexed.
RefCoord(ref, map) == [i \in 1..Len(map) |-> ref.atoms[map[i][1] + 1].pos]

\* Fault: the test atoms taken in file order, not through the mapping.
TestCoordInOrder(test, map) == [i \in 1..Len(map) |-> test.atoms[i].pos]

TestCoord(test, map) == [i \in 1..Len(map) |-> test.atoms[map[i][2] + 1].pos]

\* Column sums; rave[c] /= N is kept exact by scaling every coordinate by N.
ColumnSum(coord, N) == [c \in Axes |-> SumTo([i \in 1..N |-> coord[i][c]], N)]

Centered(coord, N) ==
    LET ave == ColumnSum(coord, N) IN
    [i \in 1..N |-> [c \in Axes |-> N * coord[i][c] - ave[c]]]

\* The rmsd of one mapping, lines 94-150.
MappingRMSD(ref, test, min, map) ==
    LET N == Len(map)
        refcoord == RefCoord(ref, map)
        testcoord == TestCoord(test, map)
    IN  IF min
        THEN LET rc == Centered(refcoord, N)
                 tc == Centered(testcoord, N)
                 rmatrix == qtrfit(rc, tc, N)
             IN  calc_rms(rc, rotate_coords(tc, rmatrix, N), N, N)
        ELSE calc_rms(refcoord, testcoord, N, 1)

\* The divisions by N on the way: rave[c] /= N and tave[c] /= N are not
\* guarded; calc_rms divides only when N >= 1.
DividesByZero(min, map) == min /\ Len(map) = 0

\* Fault: the comparison reversed.
UpdateBestReversed(best, value) == IF Less(best, value) THEN value ELSE best

\* if (rmsd < bestRMSD) bestRMSD = rmsd;
UpdateBest(best, value) == IF Less(value, best) THEN value ELSE best

\* Fault: the functor asks the mapper to stop at the first mapping.
FunctorReturnStop == TRUE

\* return false: check all possible mappings
FunctorReturn == FALSE

(***************************************************************************)
(* Query compilation and the isomorphism mapper.                           *)
(***************************************************************************)
NoQuery == [atoms |-> <<>>, bonds |-> {}, alive |-> FALSE]

CompileMoleculeQuery(mol) ==
    [atoms |-> [i \in 1..NumAtoms(mol) |->
                  [elem |-> mol.atoms[i].elem, arom |-> mol.atoms[i].arom,
                   ring |-> mol.atoms[i].ring]],
     bonds |-> mol.bonds,
     alive |-> TRUE]

AtomMatches(qa, a) == qa.elem = a.elem /\ qa.arom = a.arom /\ qa.ring = a.ring

BondMatches(qb, f, test) ==
    \E b \in test.bonds :
        /\ {b.a, b.b} = {f[qb.a], f[qb.b]}
        /\ b.order = qb.order /\ b.arom = qb.arom /\ b.ring = qb.ring

\* A bond of the query between the atom being placed and an atom placed
\* before it must lie on a matching bond of the queried molecule.
Feasible(q, test, partial, cand) ==
    LET k == Len(partial) + 1
        f == Append(partial, cand)
    IN  /\ \A j \in 1..Len(partial) : partial[j] # cand
        /\ AtomMatches(q.atoms[k], test.atoms[cand])
        /\ \A qb \in q.bonds : (qb.a <= k /\ qb.b <= k) => BondMatches(qb, f, test)

\* Depth-first search with backtracking: query atom Len(partial) + 1 is
\* tried on the queried atoms cand, cand + 1, ... in turn.
RECURSIVE Search(_, _, _, _)
Search(q, test, partial, cand) ==
    IF Len(partial) = Len(q.atoms) THEN <<partial>>
    ELSE IF cand > NumAtoms(test) THEN <<>>
    ELSE (IF Feasible(q, test, partial, cand)
          THEN Search(q, test, Append(partial, cand), 1)
          ELSE <<>>)
         \o Search(q, test, partial, cand + 1)

\* The mapper's zero-indexed vector of (query atom, queried atom) pairs.
AsMapping(f) == [i \in 1..Len(f) |-> <<i - 1, f[i] - 1>>]

\* Every label-compatible, adjacency-preserving bijection, in search order.
Mappings(q, test) ==
    IF Len(q.atoms) # NumAtoms(test) THEN <<>>
    ELSE LET found == Search(q, test, <<>>, 1)
         IN  [i \in 1..Len(found) |-> AsMapping(found[i])]

(***************************************************************************)
(* Matcher::computeRMSD: the functor is constructed, MapGeneric hands it   *)
(* every mapping until none is left or the functor returns true, and the   *)
(* functor's bestRMSD is returned.                                         *)
(***************************************************************************)
ComputeBegin ==
    /\ pc = "compute"
    /\ bestRMSD' = MapRMSDFunctorCtor
    /\ remaining' = Mappings(query, moltest)
    /\ stopped' = FALSE
    /\ pc' = "mapping"
    /\ UNCHANGED <<firstOnly, minimize, testEOF, refIdx, testIdx, molref,
                   moltest, query, rmsd, nOut, divByZero, nProc, orig>>

\* One call of MapRMSDFunctor::operator().
Visit ==
    /\ pc = "mapping"
    /\ ~stopped
    /\ remaining # <<>>
    /\ LET map == Head(remaining) IN
          /\ bestRMSD' = UpdateBest(bestRMSD, MappingRMSD(molref, moltest, minimize, map))
          /\ divByZero' = (divByZero \/ DividesByZero(minimize, map))
    /\ remaining' = Tail(remaining)
    /\ stopped' = FunctorReturn
    /\ UNCHANGED <<pc, firstOnly, minimize, testEOF, refIdx, testIdx, molref,
                   moltest, query, rmsd, nOut, nProc, orig>>

\* return funct.getRMSD();
ComputeEnd ==
    /\ pc = "mapping"
    /\ remaining = <<>> \/ stopped
    /\ rmsd' = bestRMSD
    /\ remaining' = <<>>
    /\ stopped' = FALSE
    /\ pc' = "write"
    /\ UNCHANGED <<firstOnly, minimize, testEOF, refIdx, testIdx, molref,
                   moltest, query, bestRMSD, nOut, divByZero, nProc, orig>>

(***************************************************************************)
(* main, lines 313-334.                                                    *)
(***************************************************************************)
\* The end of one pass of the outer loop: matcher and moltest are destroyed.
EndPass ==
    /\ query' = NoQuery
    /\ moltest' = EmptyMol
    /\ bestRMSD' = NoValue
    /\ orig' = EmptyMol
    /\ pc' = "readRef"

\* while (refconv.Read(&molref, &ifsref))
ReadRef ==
    /\ pc = "readRef"
    /\ \/ /\ refIdx < MaxRef
          /\ \E m \in FileMols : molref' = m
          /\ refIdx' = refIdx + 1
          /\ pc' = "processRef"
       \/ /\ pc' = "done"
          /\ UNCHANGED <<molref, refIdx>>
    /\ UNCHANGED <<firstOnly, minimize, testEOF, testIdx, moltest, query,
                   bestRMSD, remaining, stopped, rmsd, nOut, divByZero, nProc, orig>>

\* processMol(molref);
ProcessRef ==
    /\ pc = "processRef"
    /\ molref' = processMol(molref)
    /\ pc' = "newMatcher"
    /\ UNCHANGED <<firstOnly, minimize, testEOF, refIdx, testIdx, moltest, query,
                   bestRMSD, remaining, stopped, rmsd, nOut, divByZero, nProc, orig>>

\* Matcher matcher(molref); OBMol moltest;
NewMatcher ==
    /\ pc = "newMatcher"
    /\ query' = CompileMoleculeQuery(molref)
    /\ moltest' = EmptyMol
    /\ pc' = "readTest"
    /\ UNCHANGED <<firstOnly, minimize, testEOF, refIdx, testIdx, molref,
                   bestRMSD, remaining, stopped, rmsd, nOut, divByZero, nProc, orig>>

\* while (testconv.Read(&moltest, &ifstest))
ReadTest ==
    /\ pc = "readTest"
    /\ \/ /\ ~testEOF
          /\ testIdx < MaxTest
          /\ \E m \in FileMols : moltest' = m /\ orig' = m
          /\ testIdx' = testIdx + 1
          /\ pc' = "checkEmpty"
          /\ UNCHANGED <<testEOF, query, bestRMSD>>
       \/ /\ testEOF' = TRUE
          /\ EndPass
          /\ UNCHANGED testIdx
    /\ UNCHANGED <<firstOnly, minimize, refIdx, molref, remaining, stopped,
                   rmsd, nOut, divByZero, nProc>>

\* if (moltest.Empty()) break;
CheckEmpty ==
    /\ pc = "checkEmpty"
    /\ IF Empty(moltest)
       THEN EndPass
       ELSE pc' = "processTest" /\ UNCHANGED <<query, moltest, bestRMSD, orig>>
    /\ UNCHANGED <<firstOnly, minimize, testEOF, refIdx, testIdx, molref,
                   remaining, stopped, rmsd, nOut, divByZero, nProc>>

\* Fault: the test structure is compared as read.
ProcessTestSkipped ==
    /\ pc = "processTest"
    /\ pc' = "compute"
    /\ UNCHANGED <<firstOnly, minimize, testEOF, refIdx, testIdx, molref, moltest,
                   query, bestRMSD, remaining, stopped, rmsd, nOut, divByZero,
                   nProc, orig>>

\* processMol(moltest);
ProcessTest ==
    /\ pc = "processTest"
    /\ moltest' = processMol(moltest)
    /\ pc' = "compute"
    /\ UNCHANGED <<firstOnly, minimize, testEOF, refIdx, testIdx, molref, query,
                   bestRMSD, remaining, stopped, rmsd, nOut, divByZero, nProc, orig>>

\* Fault: the break after the line is left out.
WriteLineNoBreak ==
    /\ pc = "write"
    /\ nOut' = nOut + 1
    /\ rmsd' = NoValue
    /\ pc' = "readTest"
    /\ orig' = EmptyMol
    /\ UNCHANGED <<firstOnly, minimize, testEOF, refIdx, testIdx, molref, moltest,
                   query, bestRMSD, remaining, stopped, divByZero, nProc>>

\* cout << "RMSD " ...; if (!firstOnly) break;
WriteLine ==
    /\ pc = "write"
    /\ nOut' = nOut + 1
    /\ rmsd' = NoValue
    /\ IF ~firstOnly
       THEN EndPass
       ELSE pc' = "readTest" /\ orig' = EmptyMol /\ UNCHANGED <<query, moltest, bestRMSD>>
    /\ UNCHANGED <<firstOnly, minimize, testEOF, refIdx, testIdx, molref,
                   remaining, stopped, divByZero, nProc>>

Init ==
    /\ pc = "readRef"
    /\ firstOnly \in BOOLEAN
    /\ minimize \in BOOLEAN
    /\ testEOF = FALSE
    /\ refIdx = 0
    /\ testIdx = 0
    /\ molref = EmptyMol
    /\ moltest = EmptyMol
    /\ query = NoQuery
    /\ bestRMSD = NoValue
    /\ remaining = <<>>
    /\ stopped = FALSE
    /\ rmsd = NoValue
    /\ nOut = 0
    /\ divByZero = FALSE
    /\ nProc = 0
    /\ orig = EmptyMol

Next ==
    \/ ReadRef
    \/ ProcessRef
    \/ NewMatcher
    \/ ReadTest
    \/ CheckEmpty
    \/ ProcessTest
    \/ ComputeBegin
    \/ Visit
    \/ ComputeEnd
    \/ WriteLine

Spec == Init /\ [][Next]_vars

(***************************************************************************)
(* Normalizer alone: processMol applied repeatedly to one structure.       *)
(***************************************************************************)
MaxProc == 2

Quiet ==
    /\ firstOnly = FALSE
    /\ testEOF = FALSE
    /\ refIdx = 1
    /\ testIdx = 1
    /\ bestRMSD = NoValue
    /\ remaining = <<>>
    /\ stopped = FALSE
    /\ rmsd = NoValue
    /\ nOut = 0
    /\ divByZero = FALSE
    /\ nProc = 0

InitNorm ==
    /\ pc = "normalize"
    /\ minimize = FALSE
    \* atom i lies at x = i, so that the atoms of a structure are told apart
    /\ \E n \in 0..MaxAtoms :
          \E es \in [1..n -> Elements], bs \in SUBSET Pairs(n), fl \in AnyFlags :
              orig = MkMol(n, es, [i \in 1..n |-> i], bs, fl)
    /\ molref = orig
    /\ moltest = EmptyMol
    /\ query = NoQuery
    /\ Quiet

Normalize ==
    /\ pc = "normalize"
    /\ nProc < MaxProc
    /\ molref' = processMol(molref)
    /\ nProc' = nProc + 1
    /\ UNCHANGED <<pc, firstOnly, minimize, testEOF, refIdx, testIdx, moltest,
                   query, bestRMSD, remaining, stopped, rmsd, nOut, divByZero, orig>>

NextNorm == Normalize

SpecNorm == InitNorm /\ [][NextNorm]_vars

(***************************************************************************)
(* computeRMSD alone, on normalized structures.                            *)
(***************************************************************************)
HeavyElements == Elements \ {"H"}

\* m is a normalized structure of up to nmax heavy atoms.
IsCmpMol(m, nmax) ==
    \E n \in 0..nmax :
        \E es \in [1..n -> HeavyElements], xs \in AnyCoords(n), bs \in SUBSET Pairs(n) :
            m = processMol(MkMol(n, es, xs, bs, Perceived))

NextCmp == ComputeBegin \/ Visit \/ ComputeEnd

\* Carbon atoms first, and x non-decreasing among atoms of one element:
\* every structure is a re-indexing of one in this order.
InOrder(mol) ==
    \A i, j \in 1..NumAtoms(mol) :
        i < j =>
            \/ mol.atoms[i].elem = "C" /\ mol.atoms[j].elem # "C"
            \/ /\ mol.atoms[i].elem = mol.atoms[j].elem
               /\ mol.atoms[i].pos[1] <= mol.atoms[j].pos[1]

\* A reference in that order against any test structure.
InitCmp ==
    /\ pc = "compute"
    /\ minimize \in BOOLEAN
    /\ IsCmpMol(molref, MaxAtoms)
    /\ InOrder(molref)
    /\ IsCmpMol(moltest, MaxAtoms)
    /\ orig = moltest
    /\ query = CompileMoleculeQuery(molref)
    /\ Quiet

SpecCmp == InitCmp /\ [][NextCmp]_vars

\* A structure against itself.
InitSelf ==
    /\ pc = "compute"
    /\ minimize = FALSE
    /\ IsCmpMol(molref, MaxAtoms)
    /\ moltest = molref
    /\ orig = moltest
    /\ query = CompileMoleculeQuery(molref)
    /\ Quiet

SpecSelf == InitSelf /\ [][NextCmp]_vars

\* Re-indexed test structures: atom i of mol becomes atom p[i].
Bijections(n) == {f \in [1..n -> 1..n] : \A i, j \in 1..n : i # j => f[i] # f[j]}

Permute(mol, p) ==
    [mol EXCEPT
        !.atoms = [j \in 1..NumAtoms(mol) |->
                     mol.atoms[CHOOSE i \in 1..NumAtoms(mol) : p[i] = j]],
        !.bonds = { [b EXCEPT !.a = IF p[b.a] < p[b.b] THEN p[b.a] ELSE p[b.b],
                              !.b = IF p[b.a] < p[b.b] THEN p[b.b] ELSE p[b.a]] :
                      b \in mol.bonds }]

\* m is a centre atom at the origin carrying three branch atoms of one
\* element, normalized.
IsStar(m) ==
    \E ce \in HeavyElements, be \in HeavyElements, xs \in AnyCoords(3) :
        m = processMol(MkMol(4, <<ce, be, be, be>>, <<0>> \o xs,
                             {<<1, j>> : j \in 2..4}, Perceived))

InitPerm ==
    /\ pc = "compute"
    /\ minimize = FALSE
    /\ IsStar(molref) \/ IsCmpMol(molref, 2)
    /\ IsStar(orig) \/ IsCmpMol(orig, 2)
    /\ \E p \in Bijections(NumAtoms(orig)) : moltest = Permute(orig, p)
    /\ query = CompileMoleculeQuery(molref)
    /\ Quiet

SpecPerm == InitPerm /\ [][NextCmp]_vars

(***************************************************************************)
(* Properties.                                                             *)
(***************************************************************************)
AllMappings == Mappings(query, moltest)

\* The mappings the functor has been called with so far.
Visited == SubSeq(AllMappings, 1, Len(AllMappings) - Len(remaining))

ValuesOf(ref, test, min, ms) ==
    {MappingRMSD(ref, test, min, ms[i]) : i \in 1..Len(ms)}

\* v is the least value of S, or infinity when S is empty.
IsMinOf(v, S) ==
    IF S = {} THEN v = Inf
    ELSE /\ \E w \in S : SameValue(v, w)
         /\ \A w \in S : ~Less(w, v)

InCompare == pc \in {"compute", "mapping", "write"}

\* C1: when the enumerator produces no mapping, the functor is never
\* called, bestRMSD keeps HUGE_VAL and computeRMSD returns infinity, for
\* either value of minimize.
C1_UnmatchableIsInfinity ==
    AllMappings = <<>> =>
        /\ pc = "mapping" => (remaining = <<>> /\ bestRMSD = Inf)
        /\ pc = "write" => rmsd = Inf

\* Equal atom counts, yet no bijection.
C1_Witness ==
    /\ pc = "write"
    /\ rmsd = Inf
    /\ minimize
    /\ NumAtoms(molref) = NumAtoms(moltest)
    /\ NumAtoms(molref) >= 2
    /\ AllMappings = <<>>

\* C2: the functor never asks to stop, after each call bestRMSD is the
\* least rmsd of the mappings visited so far, and the value returned is
\* the least rmsd over every mapping, with or without minimize.
C2_MinimumOverAllMappings ==
    /\ pc = "mapping" =>
          /\ ~stopped
          /\ IsMinOf(bestRMSD, ValuesOf(molref, moltest, minimize, Visited))
    /\ pc = "write" =>
          IsMinOf(rmsd, ValuesOf(molref, moltest, minimize, AllMappings))

\* The least value belongs to a mapping that is neither the first nor the
\* last one visited.
C2_Witness ==
    /\ pc = "write"
    /\ minimize
    /\ Len(AllMappings) >= 3
    /\ Less(rmsd, MappingRMSD(molref, moltest, minimize, AllMappings[1]))
    /\ Less(rmsd, MappingRMSD(molref, moltest, minimize,
                              AllMappings[Len(AllMappings)]))

IdentityMapping(n) == [i \in 1..n |-> <<i - 1, i - 1>>]

\* C3: a normalized structure with at least one heavy atom compared with
\* itself, without minimize, has the identity among its mappings and gives 0.
C3_SelfComparisonIsZero ==
    (~minimize /\ moltest = molref /\ NumAtoms(molref) >= 1) =>
        /\ pc = "mapping" =>
              \E i \in 1..Len(AllMappings) :
                  AllMappings[i] = IdentityMapping(NumAtoms(molref))
        /\ pc = "write" => IsZero(rmsd)

\* Some other mapping of the structure onto itself is farther than 0.
C3_Witness ==
    /\ pc = "write"
    /\ ~minimize
    /\ moltest = molref
    /\ NumAtoms(molref) >= 2
    /\ IsZero(rmsd)
    /\ \E i \in 1..Len(AllMappings) :
          ~IsZero(MappingRMSD(molref, moltest, minimize, AllMappings[i]))

\* C4: without minimize the result for a re-indexed test structure is the
\* result for the structure as given, and a re-indexed copy of the
\* reference gives 0.
C4_ReindexingInvariant ==
    (pc = "write" /\ ~minimize) =>
        /\ IsMinOf(rmsd, ValuesOf(molref, orig, minimize, Mappings(query, orig)))
        /\ orig = molref => IsZero(rmsd)

\* A centre with three equivalent branches, the branches re-indexed so that
\* the atoms in file order are not at the reference's positions.
C4_Witness ==
    /\ pc = "write"
    /\ ~minimize
    /\ orig = molref
    /\ NumAtoms(molref) = 4
    /\ moltest # orig
    /\ moltest.atoms[1] = orig.atoms[1]
    /\ Len(AllMappings) >= 3
    /\ ~IsZero(MappingRMSD(molref, moltest, minimize, IdentityMapping(4)))
    /\ IsZero(rmsd)

\* C5: no division by an atom count N = 0 is ever performed.
C5_NoDivisionByZero == ~divByZero

\* C6: whenever computeRMSD runs, reference and test are normalized, the
\* test is the normalization of the record read, and the query was
\* compiled from the normalized reference.
C6_NormalizedBeforeCompare ==
    /\ pc = "newMatcher" => IsNormalized(molref)
    /\ query.alive =>
          /\ IsNormalized(molref)
          /\ query = CompileMoleculeQuery(molref)
    /\ InCompare =>
          /\ query.alive
          /\ IsNormalized(moltest)
          /\ moltest = processMol(orig)

\* The record read held a hydrogen and perceived flags.
C6_Witness ==
    /\ pc = "compute"
    /\ testIdx >= 2
    /\ ~IsNormalized(orig)
    /\ orig.atoms[1].arom
    /\ NumAtoms(moltest) >= 1
    /\ NumAtoms(molref) >= 1

\* C7: with one Matcher reused, each comparison starts from infinity, its
\* result is the least rmsd over the mappings of the reference, this test
\* structure and the flag, and computeRMSD changes neither structure nor
\* the query.
C7_ResultOfInputsOnly ==
    /\ pc = "mapping" /\ remaining = AllMappings => bestRMSD = Inf
    /\ pc = "write" =>
          IsMinOf(rmsd, ValuesOf(molref, moltest, minimize,
                                 Mappings(CompileMoleculeQuery(molref), moltest)))

C7_Frame ==
    pc \in {"compute", "mapping"} => UNCHANGED <<molref, moltest, query, minimize>>

C7_SelfContained == []C7_ResultOfInputsOnly /\ [][C7_Frame]_vars

\* A later comparison of the same Matcher with a nonzero finite result.
C7_Witness ==
    /\ pc = "write"
    /\ firstOnly
    /\ nOut >= 1
    /\ rmsd.tag = "fin"
    /\ ~IsZero(rmsd)

\* C8: with firstonly, every line written compares against the first
\* reference structure.
C8_FirstOnlyFirstReference == (firstOnly /\ pc = "write") => refIdx = 1

\* C9: once normalized, normalizing again changes nothing; no hydrogen is
\* left, every bond joins two remaining atoms, aromatic flags are cleared,
\* ring flags set and bond orders 1.
C9_NormalizeIdempotent ==
    (pc = "normalize" /\ nProc >= 1) =>
        /\ processMol(molref) = molref
        /\ molref = processMol(orig)
        /\ IsNormalized(molref)
        /\ Cardinality(molref.bonds) =
             Cardinality({b \in orig.bonds : /\ ~IsHydrogen(orig.atoms[b.a])
                                            /\ ~IsHydrogen(orig.atoms[b.b])})

\* A structure with a bonded hydrogen and a bond between heavy atoms,
\* normalized twice.
C9_Witness ==
    /\ pc = "normalize"
    /\ nProc = MaxProc
    /\ \E b \in orig.bonds : IsHydrogen(orig.atoms[b.a])
    /\ \E b \in orig.bonds : b.arom /\ b.order > 1
    /\ molref.bonds # {}

\* C10: without firstonly the k-th reference meets only the k-th test
\* record, each pass reads at most one test record and writes at most one
\* line.
C10_PositionalPairing ==
    ~firstOnly =>
        /\ testIdx <= refIdx
        /\ nOut <= testIdx
        /\ pc \in {"checkEmpty", "processTest", "compute", "mapping", "write"} =>
              testIdx = refIdx
        /\ pc = "write" => nOut < testIdx

\* The second line, for the second reference and the second test record.
C10_Witness ==
    /\ ~firstOnly
    /\ pc = "write"
    /\ refIdx = 2
    /\ testIdx = 2
    /\ nOut = 1

====
